---- MODULE Spec2Model ----
(***************************************************************************)
(* A model of the module-lifecycle core of the edge agent:                 *)
(*   edgelet/edgelet-docker/src/runtime.rs  (DockerModuleRuntime)          *)
(* Strings are sequences of one-character strings, so that trimming,       *)
(* splitting at '=' and formatting are computed as the code computes them. *)
(***************************************************************************)
EXTENDS Integers, Sequences, FiniteSets, TLC

\* ------------------------------------------------------------------------
\* Strings
\* ------------------------------------------------------------------------

\* char::is_whitespace, on the characters the model uses
IsWhitespace(c) == c \in {" ", "\t"}

\* str::trim: strip leading and trailing whitespace
RECURSIVE TrimStart(_)
TrimStart(s) ==
    IF s = <<>> THEN <<>>
    ELSE IF IsWhitespace(Head(s)) THEN TrimStart(Tail(s))
    ELSE s

RECURSIVE TrimEnd(_)
TrimEnd(s) ==
    IF s = <<>> THEN <<>>
    ELSE IF IsWhitespace(s[Len(s)]) THEN TrimEnd(SubSeq(s, 1, Len(s) - 1))
    ELSE s

Trim(s) == TrimEnd(TrimStart(s))

\* Option<T>
None == [some |-> FALSE, val |-> <<>>]
Some(v) == [some |-> TRUE, val |-> v]

\* ------------------------------------------------------------------------
\* merge_env
\* ------------------------------------------------------------------------

\* the part of s before the first '=' (the first token of s.splitn(2, '='))
RECURSIVE SplitKey(_)
SplitKey(s) ==
    IF s = <<>> THEN <<>>
    ELSE IF Head(s) = "=" THEN <<>>
    ELSE <<Head(s)>> \o SplitKey(Tail(s))

\* the part of s after the first '=' (the second token of s.splitn(2, '=')),
\* or "" when s holds no '=' (tokens.next().unwrap_or(""))
RECURSIVE SplitValue(_)
SplitValue(s) ==
    IF s = <<>> THEN <<>>
    ELSE IF Head(s) = "=" THEN Tail(s)
    ELSE SplitValue(Tail(s))

\* HashMap::insert: a later insert of the same key replaces the value
MapInsert(m, k, v) ==
    [x \in (DOMAIN m) \cup {k} |-> IF x = k THEN v ELSE m[x]]

\* mutant: an entry of env is inserted only when the map has no entry of its
\* key yet
RECURSIVE ExtendKeepingExisting(_, _, _)
ExtendKeepingExisting(m, env, i) ==
    IF i > Len(env) THEN m
    ELSE IF SplitKey(env[i]) \in DOMAIN m THEN ExtendKeepingExisting(m, env, i + 1)
    ELSE ExtendKeepingExisting(MapInsert(m, SplitKey(env[i]), SplitValue(env[i])), env, i + 1)

\* merged_env.extend(env.iter().filter_map(split)) : the entries of env are
\* inserted in order, from index i on
RECURSIVE ExtendFromCur(_, _, _)
ExtendFromCur(m, env, i) ==
    IF i > Len(env) THEN m
    ELSE ExtendFromCur(MapInsert(m, SplitKey(env[i]), SplitValue(env[i])), env, i + 1)

\* mutant: the entries of new_env are inserted last, so that they replace
\* cur_env's on a key collision
MergedEnvNewLast(cur_env, new_env) ==
    LET c == IF cur_env.some
             THEN ExtendFromCur([x \in {} |-> <<>>], cur_env.val, 1)
             ELSE [x \in {} |-> <<>>]
    IN  [k \in (DOMAIN c) \cup (DOMAIN new_env) |->
            IF k \in DOMAIN new_env THEN new_env[k] ELSE c[k]]

\* the HashMap merge_env builds: new_env's entries first, then cur_env's
MergedEnv(cur_env, new_env) ==
    IF cur_env.some THEN ExtendFromCur(new_env, cur_env.val, 1) ELSE new_env

\* format!("{}={}", key, value)
FormatEntry(key, value) == key \o <<"=">> \o value

\* the orders in which a HashMap of these keys may be iterated
IterOrders(keys) ==
    {o \in [1..Cardinality(keys) -> keys] :
        \A i, j \in 1..Cardinality(keys) : o[i] = o[j] => i = j}

\* mutant: no map is built; new_env's entries are followed by cur_env's as
\* they stand
MergeEnvConcat(cur_env, new_env) ==
    {[i \in 1..(Cardinality(DOMAIN new_env) + Len(cur_env.val)) |->
        IF i <= Cardinality(DOMAIN new_env)
        THEN FormatEntry(o[i], new_env[o[i]])
        ELSE cur_env.val[i - Cardinality(DOMAIN new_env)]]
     : o \in IterOrders(DOMAIN new_env)}

\* merge_env(cur_env, new_env): the vectors it may return, one for each
\* iteration order of the merged map
merge_env(cur_env, new_env) ==
    LET m == MergedEnv(cur_env, new_env)
    IN  {[i \in 1..Cardinality(DOMAIN m) |-> FormatEntry(o[i], m[o[i]])]
         : o \in IterOrders(DOMAIN m)}

\* ------------------------------------------------------------------------
\* Inputs of merge_env
\* ------------------------------------------------------------------------

\* the longest cur_env (createOptions.env) the model draws
MaxCurEnv == 2

K1 == <<"k", "1">>
K2 == <<"k", "2">>
K3 == <<"k", "3">>

\* entries of createOptions.env: those of the tests, a second value for k2,
\* an entry with no '=', and one whose value holds a '='
CurEntries ==
    { K1 \o <<"=", "v", "1">>,
      K2 \o <<"=", "v", "2">>,
      K2 \o <<"=", "w">>,
      K1,
      <<"=", "v">>,
      K2 \o <<"=", "v", "=", "2">> }

\* the spec's env mapping: any part of k2 -> v02, k3 -> v3, "k2=v" -> 2
NewEnvFull ==
    (K2 :> <<"v", "0", "2">>) @@ (K3 :> <<"v", "3">>) @@ ((K2 \o <<"=", "v">>) :> <<"2">>)

NewEnvs == {[k \in ks |-> NewEnvFull[k]] : ks \in SUBSET (DOMAIN NewEnvFull)}

CurEnvs == {None} \cup {Some(s) : s \in UNION {[1..n -> CurEntries] : n \in 0..MaxCurEnv}}

VARIABLES
    cur_env,    \* merge_env's first argument: Option<&[String]>
    new_env,    \* merge_env's second argument: the HashMap, a function
    merged      \* Option: the Vec<String> merge_env returned

mergeVars == <<cur_env, new_env, merged>>

VARIABLES
    call,       \* the lifecycle or registry call being made: its name and arguments
    requests,   \* the requests that call has handed to the engine client, in order
    result,     \* "none", "pending", "Ok", or the ErrorKind the call's future fails with
    log,        \* the warnings that call has logged
    answer,     \* what the engine client's future of the request resolved with
    item        \* the Item the call's future resolved with

callVars == <<call, requests, result, log, answer, item>>

VARIABLES
    lwd,        \* list_with_details' stream: "unused", "listing", "scanning",
                \* "list_failed", "ended" (it returned None) or "dropped"
    snapshot,   \* the Vec<Module> list() resolved with
    queries,    \* per snapshot position: the calls of runtime_state() made
    resolved,   \* per snapshot position: what the state query resolved with
    consumed,   \* the positions whose completion the stream has taken
    items,      \* the items the stream has handed to its consumer, in order
    listed      \* what list() resolved with: "none" yet, "Ok", or an ErrorKind

lwdVars == <<lwd, snapshot, queries, resolved, consumed, items, listed>>

VARIABLES
    network_id,     \* DockerModuleRuntime.network_id: Option<String>
    networks,       \* the engine: the names of the networks it holds
    init_pc,        \* per init() call: "idle", "listing", "creating", "Ok", "Err"
    init_requests,  \* per init() call: the requests it has handed to the engine client
    init_after,     \* per init() call: the calls that had succeeded when it was made
    init_listed     \* per init() call: "none", or what its network_list was
                    \* answered with: "empty", "nonempty" or "failed"

initVars == <<network_id, networks, init_pc, init_requests, init_after, init_listed>>

VARIABLES
    ra_pc,        \* remove_all(): "unused", "listing", "joining" or "done"
    ra_snapshot,  \* the names of the modules list() resolved with
    ra_calls,     \* per snapshot position: the calls of remove() made for it
    ra_requests,  \* the container-delete requests handed to the engine client
    ra_elems,     \* JoinAll's elements: "inflight", "Ok" or an error kind
                  \* (resolved, not polled yet), "done"; <<>> once dropped
    ra_result,    \* "none", or what remove_all's future resolved with
    ra_list,      \* "none", or what list() resolved with: "Ok" or an error kind
    ra_outcomes   \* per snapshot position: what the future remove() returned
                  \* has resolved with: "pending", "Ok" or an error kind

raVars == <<ra_pc, ra_snapshot, ra_calls, ra_requests, ra_elems, ra_result,
            ra_list, ra_outcomes>>

VARIABLES
    identities,   \* the identity manager: the module ids of its identities, in order
    mutex,        \* DeleteIdentity.id_manager's Mutex: 0, or the handle call holding it
    h_pc,         \* per handle call: "idle", "locking", "locked", "returned"
                  \* (handle has returned its future) or "done" (it has resolved)
    h_params,     \* per handle call: params.name("name")
    h_before,     \* per handle call: the identities when it called delete
    h_delete,     \* per handle call: "none", or what delete's future resolves with
    h_response,   \* per handle call: what handle's future resolved with
    h_locks,      \* per handle call: how often it has locked the mutex
    h_deletes     \* per handle call: the module ids it has called delete with

diVars == <<identities, mutex, h_pc, h_params, h_before, h_delete, h_response,
            h_locks, h_deletes>>

vars == <<mergeVars, callVars, lwdVars, initVars, raVars, diVars>>

\* DeleteIdentity is not being exercised
DeleteIdentityUnused ==
    /\ identities = <<>>
    /\ mutex = 0
    /\ h_pc = <<>>
    /\ h_params = <<>>
    /\ h_before = <<>>
    /\ h_delete = <<>>
    /\ h_response = <<>>
    /\ h_locks = <<>>
    /\ h_deletes = <<>>

\* remove_all is not being exercised
RemoveAllUnused ==
    /\ ra_pc = "unused"
    /\ ra_snapshot = <<>>
    /\ ra_calls = <<>>
    /\ ra_requests = <<>>
    /\ ra_elems = <<>>
    /\ ra_result = "none"
    /\ ra_list = "none"
    /\ ra_outcomes = <<>>

\* init is not being exercised
InitUnused ==
    /\ network_id = None
    /\ networks = {}
    /\ init_pc = <<>>
    /\ init_requests = <<>>
    /\ init_after = <<>>
    /\ init_listed = <<>>

\* list_with_details is not being exercised
LwdUnused ==
    /\ lwd = "unused"
    /\ snapshot = <<>>
    /\ queries = <<>>
    /\ resolved = <<>>
    /\ consumed = {}
    /\ items = <<>>
    /\ listed = "none"

\* merge_env is not being exercised on its own
MergeEnvUnused == cur_env = None /\ new_env = <<>> /\ merged = None

\* no lifecycle call has been made
NoModule == [name |-> <<>>, type |-> "", image |-> "", env |-> <<>>,
             options_ok |-> TRUE, options_env |-> None, options_labels |-> None]
NoConfig == [image |-> "", auth |-> "none"]
NoCall == [op |-> "none", id |-> <<>>, wait_before_kill |-> None, module |-> NoModule,
           config |-> NoConfig]

\* Option<&String>, for strings that are only compared
NoString == [some |-> FALSE, val |-> ""]

\* the engine has not answered; the call's future has resolved with nothing
NoBody == [containers |-> <<>>, os_type |-> NoString, architecture |-> NoString]
NoAnswer == [ok |-> FALSE, err |-> "none", body |-> NoBody]
NoItem == [kind |-> "none", modules |-> <<>>, os_type |-> "", architecture |-> ""]

CallsUnused ==
    /\ call = NoCall
    /\ requests = <<>>
    /\ result = "none"
    /\ log = <<>>
    /\ answer = NoAnswer
    /\ item = NoItem

InitMergeEnv ==
    /\ cur_env \in CurEnvs
    /\ new_env \in NewEnvs
    /\ merged = None
    /\ CallsUnused
    /\ LwdUnused
    /\ InitUnused
    /\ RemoveAllUnused
    /\ DeleteIdentityUnused

\* one call of merge_env on the inputs
MergeEnvCall ==
    /\ ~merged.some
    /\ \E r \in merge_env(cur_env, new_env) : merged' = Some(r)
    /\ UNCHANGED <<cur_env, new_env, callVars, lwdVars, initVars, raVars, diVars>>

NextMergeEnv == MergeEnvCall

SpecMergeEnv == InitMergeEnv /\ [][NextMergeEnv]_vars

\* ------------------------------------------------------------------------
\* Lifecycle and registry calls that hand one request to the engine client
\* ------------------------------------------------------------------------

\* const WAIT_BEFORE_KILL_SECONDS: i32
WAIT_BEFORE_KILL_SECONDS == 10

\* i32::max_value()
I32Max == 2147483647

LABEL_KEY == "net.azure-devices.edge.owner"
LABEL_VALUE == "Microsoft.Azure.Devices.Edge.Agent"

\* lazy_static LABELS: the label filters of list()
LABELS == <<"net.azure-devices.edge.owner=Microsoft.Azure.Devices.Edge.Agent">>

\* module::MODULE_TYPE
DOCKER_MODULE_TYPE == "docker"

\* fensure_not_empty!(val) lets the call go on when val, trimmed, is not empty;
\* otherwise the function returns a future failed with ErrorKind::Utils
fensure_not_empty(val) == Trim(val) # <<>>

\* A u64 is four 16-bit limbs, the most significant first.
U64(a, b, c, d) == <<a, b, c, d>>

\* s > i32::max_value() as u64
GreaterThanI32Max(s) == s[1] > 0 \/ s[2] > 0 \/ s[3] > 32767

\* s as i32: the low 32 bits, read as two's complement
AsI32(s) ==
    IF s[3] >= 32768 THEN (s[3] - 65536) * 65536 + s[4]
    ELSE s[3] * 65536 + s[4]

\* mutant: the seconds are cast without the comparison with i32::max_value()
KillGraceUnclamped(wait_before_kill) ==
    IF wait_before_kill.some THEN AsI32(wait_before_kill.val.secs)
    ELSE WAIT_BEFORE_KILL_SECONDS

\* wait_before_kill.map_or(WAIT_BEFORE_KILL_SECONDS, |s| match s.as_secs() {..})
KillGrace(wait_before_kill) ==
    IF wait_before_kill.some
    THEN IF GreaterThanI32Max(wait_before_kill.val.secs)
         THEN I32Max
         ELSE AsI32(wait_before_kill.val.secs)
    ELSE WAIT_BEFORE_KILL_SECONDS

\* the error kinds Error::from gives a failed engine request
EngineErrors == {"NotFound", "Docker"}

\* the warning each operation's map_err logs before it returns a failure
FailureWarning(op) ==
    CASE op = "start" -> <<"Attempt to start a container failed.">>
      [] op = "stop" -> <<"Attempt to stop a container failed.">>
      [] op = "restart" -> <<"Attempt to restart a container failed.">>
      [] op = "remove" -> <<"Attempt to remove a container failed.">>
      [] op = "registry_remove" -> <<"Attempt to remove image failed.">>
      [] op = "logs" -> <<"Attempt to get container logs failed.">>
      [] op = "list" -> <<"Attempt to list containers failed.">>
      [] op = "system_info" -> <<"Attempt to get system information failed.">>
      [] op = "pull" -> <<"Attempt to pull image failed.">>
      [] OTHER -> <<>>

\* the longest identifier the model draws
MaxIdLen == 2

IdChars == {" ", "\t", "a"}

Ids == UNION {[1..n -> IdChars] : n \in 0..MaxIdLen}

\* Option<Duration>: absent, or seconds around the 32-bit limits
Durations ==
    {[secs |-> s, nanos |-> n] :
        s \in { U64(0, 0, 0, 0), U64(0, 0, 0, 1), U64(0, 0, 0, 10), U64(0, 0, 0, 65535),
                U64(0, 0, 1, 0), U64(0, 0, 32767, 65534), U64(0, 0, 32767, 65535),
                U64(0, 0, 32768, 0), U64(0, 0, 65535, 65535), U64(0, 1, 0, 0),
                U64(0, 1, 0, 7), U64(1, 0, 0, 5), U64(65535, 65535, 65535, 65535) },
        n \in {0, 999999999}}

WaitsBeforeKill == {None} \cup {Some(d) : d \in Durations}

\* ModuleSpec<DockerConfig>: options_ok tells whether clone_create_options
\* succeeds, options_env and options_labels are createOptions' env and labels
ModuleSpecs ==
    {[name |-> <<"m", "1">>, type |-> t, image |-> "nginx:latest", env |-> e,
      options_ok |-> ok, options_env |-> oe, options_labels |-> ol] :
        t \in {"docker", "not_docker", "Docker", ""},
        e \in {<<>>, (K2 :> <<"v", "0", "2">>)},
        ok \in BOOLEAN,
        oe \in {None, Some(<<K2 \o <<"=", "v", "2">>, K1 \o <<"=", "v", "1">>>>)},
        ol \in {None, Some([x |-> "y"]), Some((LABEL_KEY :> "other") @@ [x |-> "y"])}}

InitRuntime ==
    /\ MergeEnvUnused /\ CallsUnused /\ LwdUnused /\ InitUnused /\ RemoveAllUnused
    /\ DeleteIdentityUnused

\* no call is under way: the caller may make one
Idle == result = "none"

IdCall(op, id) == [NoCall EXCEPT !.op = op, !.id = id]

\* the call returns a future; reqs are the requests composed for it
Begin(c, reqs, res, warnings) ==
    /\ Idle
    /\ call' = c
    /\ requests' = reqs
    /\ result' = res
    /\ log' = warnings
    /\ answer' = NoAnswer
    /\ item' = NoItem
    /\ UNCHANGED <<mergeVars, lwdVars, initVars, raVars, diVars>>

\* mutant: the identifier is handed to the engine client as it is
start_unchecked ==
    \E id \in Ids :
        Begin(IdCall("start", id), <<[api |-> "container_start", id |-> id]>>, "pending", <<>>)

\* ModuleRuntime::start
start ==
    \E id \in Ids :
        IF fensure_not_empty(id)
        THEN Begin(IdCall("start", id), <<[api |-> "container_start", id |-> id]>>,
                   "pending", <<>>)
        ELSE Begin(IdCall("start", id), <<>>, "Utils", <<>>)

StopCall(id, w) == [NoCall EXCEPT !.op = "stop", !.id = id, !.wait_before_kill = w]

\* ModuleRuntime::stop
stop ==
    \E id \in Ids, w \in WaitsBeforeKill :
        IF fensure_not_empty(id)
        THEN Begin(StopCall(id, w),
                   <<[api |-> "container_stop", id |-> id, t |-> KillGrace(w)]>>,
                   "pending", <<>>)
        ELSE Begin(StopCall(id, w), <<>>, "Utils", <<>>)

\* ModuleRuntime::restart
restart ==
    \E id \in Ids :
        IF fensure_not_empty(id)
        THEN Begin(IdCall("restart", id),
                   <<[api |-> "container_restart", id |-> id, t |-> WAIT_BEFORE_KILL_SECONDS]>>,
                   "pending", <<>>)
        ELSE Begin(IdCall("restart", id), <<>>, "Utils", <<>>)

\* mutant: the container is deleted with its volumes and without force
DeleteRequestUnforced(id) ==
    [api |-> "container_delete", id |-> id, v |-> TRUE, force |-> FALSE, link |-> FALSE]

\* the container-delete request ModuleRuntime::remove composes
DeleteRequest(id) ==
    [api |-> "container_delete", id |-> id, v |-> FALSE, force |-> TRUE, link |-> FALSE]

\* ModuleRuntime::remove
remove ==
    \E id \in Ids :
        IF fensure_not_empty(id)
        THEN Begin(IdCall("remove", id), <<DeleteRequest(id)>>, "pending", <<>>)
        ELSE Begin(IdCall("remove", id), <<>>, "Utils", <<>>)

\* ModuleRegistry::remove
registry_remove ==
    \E name \in Ids :
        IF fensure_not_empty(name)
        THEN Begin(IdCall("registry_remove", name),
                   <<[api |-> "image_delete", name |-> name, force |-> FALSE, noprune |-> FALSE]>>,
                   "pending", <<>>)
        ELSE Begin(IdCall("registry_remove", name), <<>>, "Utils", <<>>)

\* ModuleRuntime::logs, for LogOptions of any tail and follow
logs ==
    \E id \in Ids, follow \in BOOLEAN :
        /\ Idle
        /\ Begin(IdCall("logs", id),
              <<[api |-> "container_logs", id |-> id, follow |-> follow,
                 stdout |-> TRUE, stderr |-> TRUE, since |-> 0, timestamps |-> FALSE]>>,
              "pending", <<>>)

\* mutant: the labels of createOptions are sent as they are
CreateAcceptedUnlabelled(m) ==
    IF m.options_ok
    THEN \E merged_env \in merge_env(m.options_env, m.env) :
             Begin([NoCall EXCEPT !.op = "create", !.module = m],
                   <<[api |-> "container_create", name |-> m.name, image |-> m.image,
                      env |-> merged_env,
                      labels |-> IF m.options_labels.some THEN m.options_labels.val
                                 ELSE <<>>]>>,
                   "pending", <<>>)
    ELSE Begin([NoCall EXCEPT !.op = "create", !.module = m], <<>>, "Serde",
               <<"Attempt to create a container failed.">>)

\* the request create composes once the module's type has been accepted
CreateAccepted(m) ==
    IF m.options_ok
    THEN \E merged_env \in merge_env(m.options_env, m.env) :
             LET labels == MapInsert(IF m.options_labels.some THEN m.options_labels.val
                                     ELSE <<>>,
                                     LABEL_KEY, LABEL_VALUE)
             IN  Begin([NoCall EXCEPT !.op = "create", !.module = m],
                       <<[api |-> "container_create", name |-> m.name, image |-> m.image,
                          env |-> merged_env, labels |-> labels]>>,
                       "pending", <<>>)
    ELSE Begin([NoCall EXCEPT !.op = "create", !.module = m], <<>>, "Serde",
               <<"Attempt to create a container failed.">>)

\* mutant: create without the check of the module's type
create_unchecked == \E m \in ModuleSpecs : CreateAccepted(m)

\* ModuleRuntime::create
create ==
    \E m \in ModuleSpecs :
        IF m.type = DOCKER_MODULE_TYPE
        THEN CreateAccepted(m)
        ELSE Begin([NoCall EXCEPT !.op = "create", !.module = m], <<>>, "Utils", <<>>)

\* the JSON text serde_json::to_string gives a value: the value, marked
Json(value) == [json |-> value]

\* base64::encode
Base64(text) == [base64 |-> text]

\* ModuleRuntime::list: the request carries the label filters, serialized
list ==
    /\ Idle
    /\ Begin([NoCall EXCEPT !.op = "list"],
             <<[api |-> "container_list", all |-> TRUE, limit |-> 0, size |-> FALSE,
                filters |-> Json([label |-> LABELS])]>>,
             "pending", <<>>)

\* ModuleRuntime::system_info
system_info ==
    /\ Idle
    /\ Begin([NoCall EXCEPT !.op = "system_info"], <<[api |-> "system_info"]>>, "pending", <<>>)

\* DockerConfig for pull: auth is "none", "ok" (it serializes) or "bad" (it
\* does not)
PullConfigs == {[image |-> "nginx:latest", auth |-> a] : a \in {"none", "ok", "bad"}}

\* ModuleRegistry::pull: the credentials are serialized first; when that fails
\* the future fails and no request is composed
pull ==
    \E config \in PullConfigs :
        IF config.auth = "bad"
        THEN Begin([NoCall EXCEPT !.op = "pull", !.config = config], <<>>, "Serde", <<>>)
        ELSE Begin([NoCall EXCEPT !.op = "pull", !.config = config],
                   <<[api |-> "image_create", from_image |-> config.image,
                      registry_auth |-> IF config.auth = "none" THEN <<>>
                                        ELSE <<Base64(Json(config.auth))>>]>>,
                   "pending", <<>>)

\* the longest list of container records the engine answers container_list with
MaxContainers == 2

Unknown == <<"U", "n", "k", "n", "o", "w", "n">>

\* container records of the engine: no name, one name, two names, the name
\* "/"; an image reference that may be empty; labels that hold the owner's
ContainerRecords ==
    {[names |-> ns, image |-> im, image_id |-> id,
      labels |-> (LABEL_KEY :> LABEL_VALUE) @@ [x |-> "y"]] :
        ns \in {<<>>, <<<<"/", "a">>>>, <<<<"/", "b">>, <<"/", "a">>>>, <<<<"/">>>>},
        im \in {<<"i">>, <<>>},
        id \in {"sha256:1", "sha256:2"}}

ContainerLists == UNION {[1..n -> ContainerRecords] : n \in 0..MaxContainers}

\* DockerConfig::new(image, create_options, None) fails for a blank image
DockerConfigNewOk(image) == fensure_not_empty(image)

\* DockerModule::new(client, name, config) fails for a blank name
DockerModuleNewOk(name) == fensure_not_empty(name)

\* mutant: the first name is taken as the engine gave it
ModuleNameUnstripped(container) ==
    IF container.names = <<>> THEN Unknown ELSE container.names[1]

\* container.names().iter().next().map_or("Unknown", |s| &s[1..])
ModuleName(container) ==
    IF container.names = <<>> THEN Unknown ELSE Tail(container.names[1])

\* the two flat_map closures on one record: the Module, or nothing when
\* either conversion failed
ModuleOf(container) ==
    IF DockerConfigNewOk(container.image) /\ DockerModuleNewOk(ModuleName(container))
    THEN <<[name |-> ModuleName(container),
            config |-> [image |-> container.image,
                        image_id |-> container.image_id,
                        labels |-> container.labels]]>>
    ELSE <<>>

\* mutant: the records after one whose conversion failed are left out too
RECURSIVE ListModulesUntilFailure(_, _)
ListModulesUntilFailure(containers, i) ==
    IF i > Len(containers) \/ ModuleOf(containers[i]) = <<>> THEN <<>>
    ELSE ModuleOf(containers[i]) \o ListModulesUntilFailure(containers, i + 1)

\* containers.iter().flat_map(..).flat_map(..).collect(), from record i on
RECURSIVE ListModules(_, _)
ListModules(containers, i) ==
    IF i > Len(containers) THEN <<>>
    ELSE ModuleOf(containers[i]) \o ListModules(containers, i + 1)

\* what the engine may report of itself: each field present or absent
SystemInfos ==
    {[containers |-> <<>>, os_type |-> o, architecture |-> a] :
        o \in {NoString, [some |-> TRUE, val |-> "linux"]},
        a \in {NoString, [some |-> TRUE, val |-> "x86_64"]}}

\* the bodies a successful request of this api may be answered with
Bodies(api) ==
    CASE api = "container_list" ->
            {[containers |-> l, os_type |-> NoString, architecture |-> NoString] :
                l \in ContainerLists}
      [] api = "system_info" -> SystemInfos
      [] OTHER -> {NoBody}

\* what the engine client's future may resolve with: Ok(body), or Err of the
\* kind Error::from gives it
Answers(api) ==
    {[ok |-> TRUE, err |-> "", body |-> b] : b \in Bodies(api)}
        \cup {[ok |-> FALSE, err |-> k, body |-> NoBody] : k \in EngineErrors}

\* mutant: a NotFound answer is taken as success
OutcomeNotFoundSwallowed(a) == IF a.ok \/ a.err = "NotFound" THEN "Ok" ELSE a.err

\* map_err(|err| { let e = Error::from(err); ..; e }): the call fails with the
\* kind of the request's failure
Outcome(a) == IF a.ok THEN "Ok" ELSE a.err

\* the map closure of the operation, on the body of a successful answer
ItemOf(op, body) ==
    CASE op = "list" ->
            [NoItem EXCEPT !.kind = "modules", !.modules = ListModules(body.containers, 1)]
      [] op = "system_info" ->
            [NoItem EXCEPT !.kind = "system_info",
                !.os_type = IF body.os_type.some THEN body.os_type.val ELSE "Unknown",
                !.architecture = IF body.architecture.some THEN body.architecture.val
                                 ELSE "Unknown"]
      [] OTHER -> [NoItem EXCEPT !.kind = "unit"]

\* mutant: a failed request is sent once more
RespondRetry ==
    /\ result = "pending"
    /\ \E a \in Answers(requests[Len(requests)].api) :
        /\ answer' = a
        /\ IF a.ok \/ Len(requests) > 1
           THEN /\ result' = Outcome(a)
                /\ requests' = requests
           ELSE /\ result' = "pending"
                /\ requests' = Append(requests, requests[Len(requests)])
        /\ item' = IF a.ok THEN ItemOf(call.op, a.body) ELSE NoItem
        /\ log' = IF a.ok THEN log ELSE log \o FailureWarning(call.op)
    /\ UNCHANGED <<call, mergeVars, lwdVars, initVars, raVars, diVars>>

\* the engine answers the request in flight: the call's future resolves, and
\* a failure is logged by the operation's map_err (create's has none)
Respond ==
    /\ result = "pending"
    /\ \E a \in Answers(requests[Len(requests)].api) :
        /\ answer' = a
        /\ result' = Outcome(a)
        /\ item' = IF a.ok THEN ItemOf(call.op, a.body) ELSE NoItem
        /\ log' = IF a.ok THEN log ELSE log \o FailureWarning(call.op)
    /\ UNCHANGED <<call, requests, mergeVars, lwdVars, initVars, raVars, diVars>>

\* the caller takes the resolved future's outcome; the runtime keeps nothing
\* of the call
Return ==
    /\ result \notin {"none", "pending"}
    /\ call' = NoCall
    /\ requests' = <<>>
    /\ result' = "none"
    /\ log' = <<>>
    /\ answer' = NoAnswer
    /\ item' = NoItem
    /\ UNCHANGED <<mergeVars, lwdVars, initVars, raVars, diVars>>

Next ==
    \/ start
    \/ stop
    \/ restart
    \/ remove
    \/ registry_remove
    \/ logs
    \/ create
    \/ list
    \/ system_info
    \/ pull
    \/ Respond
    \/ Return

Spec == InitRuntime /\ [][Next]_vars

\* ------------------------------------------------------------------------
\* list_with_details
\* ------------------------------------------------------------------------

\* the longest snapshot list() resolves with in the model
MaxModules == 4

ModuleNames == <<"a", "b", "c", "d", "e", "f">>

\* a Module of the snapshot: its name, and which element of the snapshot it
\* is (the object's identity: two containers may show the same name)
Modules(n, named) ==
    [i \in 1..n |-> [name |-> IF named THEN ModuleNames[i] ELSE "Unknown", index |-> i]]

Snapshots == {Modules(n, named) : n \in 0..MaxModules, named \in BOOLEAN}

\* what Module::runtime_state resolves with: a ModuleRuntimeState, or an error
RuntimeStates == {"running", "stopped"}

StateOk(st) == [ok |-> TRUE, state |-> st, err |-> ""]
StateErr(kind) == [ok |-> FALSE, state |-> "", err |-> kind]
Pending == [ok |-> FALSE, state |-> "", err |-> "pending"]

StateOutcomes == {StateOk(st) : st \in RuntimeStates} \cup {StateErr(k) : k \in EngineErrors}

\* the stream's items: Ok((module, state)) or Err(err)
PairItem(module, st) == [ok |-> TRUE, module |-> module, state |-> st, err |-> ""]
ErrItem(module, kind) == [ok |-> FALSE, module |-> module, state |-> "", err |-> kind]

\* the error of a failed list() has no module
NoModuleOfList == [name |-> "", index |-> 0]

\* mutant: every failure is dropped, whatever its kind
FilterMapDropAll(value) ==
    IF value.ok THEN <<value>> ELSE <<>>

\* mutant: no failure is dropped
FilterMapKeepAll(value) == <<value>>

\* the closure of filter_map: an Ok is kept, a NotFound failure is dropped,
\* any other failure is kept; <<>> stands for None
FilterMap(value) ==
    IF value.ok THEN <<value>>
    ELSE IF value.err = "NotFound" THEN <<>>
    ELSE <<value>>

\* the item made of the completion of the state query of position i:
\* module.runtime_state().map(|state| (module, state))
Completion(i) ==
    IF resolved[i].ok THEN PairItem(snapshot[i], resolved[i].state)
    ELSE ErrItem(snapshot[i], resolved[i].err)

InitLwd ==
    /\ MergeEnvUnused /\ CallsUnused /\ InitUnused /\ RemoveAllUnused /\ LwdUnused
    /\ DeleteIdentityUnused

\* list_with_details(runtime): the stream is built around runtime.list()
list_with_details ==
    /\ lwd = "unused"
    /\ lwd' = "listing"
    /\ UNCHANGED <<snapshot, queries, resolved, consumed, items, listed, mergeVars, callVars, initVars, raVars, diVars>>

\* a poll finds list() resolved with a Vec<Module>: runtime_state() is called
\* on every module and the futures are put in a FuturesUnordered; an empty
\* one ends the stream
PollListOk ==
    /\ lwd = "listing"
    /\ \E modules \in Snapshots :
        /\ snapshot' = modules
        /\ queries' = [i \in 1..Len(modules) |-> 1]
        /\ resolved' = [i \in 1..Len(modules) |-> Pending]
        /\ lwd' = IF Len(modules) = 0 THEN "ended" ELSE "scanning"
    /\ listed' = "Ok"
    /\ UNCHANGED <<consumed, items, mergeVars, callVars, initVars, raVars, diVars>>

\* a poll finds list() failed: the failure goes through the same filter_map;
\* when it is dropped the poll goes on and finds the stream of list() over
PollListErr ==
    /\ lwd = "listing"
    /\ \E kind \in EngineErrors :
        LET kept == FilterMap(ErrItem(NoModuleOfList, kind))
        IN  /\ items' = items \o kept
            /\ lwd' = IF kept = <<>> THEN "ended" ELSE "list_failed"
            /\ listed' = kind
    /\ UNCHANGED <<snapshot, queries, resolved, consumed, mergeVars, callVars, initVars, raVars, diVars>>

\* the poll after the failure of list() was handed over: the stream is over
PollAfterListErr ==
    /\ lwd = "list_failed"
    /\ lwd' = "ended"
    /\ UNCHANGED <<snapshot, queries, resolved, consumed, items, listed, mergeVars, callVars, initVars, raVars, diVars>>

\* the engine answers the state query of one module
Resolve ==
    /\ lwd = "scanning"
    /\ \E i \in 1..Len(snapshot), o \in StateOutcomes :
        /\ resolved[i] = Pending
        /\ resolved' = [resolved EXCEPT ![i] = o]
    /\ UNCHANGED <<lwd, snapshot, queries, consumed, items, listed, mergeVars, callVars, initVars, raVars, diVars>>

\* the positions whose query has resolved and has not been taken yet
Ready == {i \in 1..Len(snapshot) : resolved[i] # Pending /\ i \notin consumed}

\* the ready positions whose completion filter_map drops, and those it keeps
ReadyDropped == {i \in Ready : FilterMap(Completion(i)) = <<>>}
ReadyKept == Ready \ ReadyDropped

\* mutant: the stream is over once it has handed over an error
PollYieldEndingOnError ==
    /\ lwd = "scanning"
    /\ \E d \in SUBSET ReadyDropped, j \in ReadyKept :
        /\ consumed' = consumed \cup d \cup {j}
        /\ items' = items \o FilterMap(Completion(j))
        /\ lwd' = IF Completion(j).ok THEN "scanning" ELSE "ended"
    /\ UNCHANGED <<snapshot, queries, resolved, listed, mergeVars, callVars, initVars, raVars, diVars>>

\* one poll of the stream while queries are outstanding. FuturesUnordered
\* hands over the completions in the order they became ready, which the code
\* does not control: the poll takes dropped completions until it meets one
\* that is kept, and hands that one over
PollYield ==
    /\ lwd = "scanning"
    /\ \E d \in SUBSET ReadyDropped, j \in ReadyKept :
        /\ consumed' = consumed \cup d \cup {j}
        /\ items' = items \o FilterMap(Completion(j))
    /\ UNCHANGED <<lwd, snapshot, queries, resolved, listed, mergeVars, callVars, initVars, raVars, diVars>>

\* one poll that meets only completions filter_map drops: it takes them all,
\* and ends the stream when no query is left (else it returns NotReady)
PollDrain ==
    /\ lwd = "scanning"
    /\ ReadyKept = {}
    /\ Ready # {} \/ consumed = 1..Len(snapshot)
    /\ consumed' = consumed \cup ReadyDropped
    /\ lwd' = IF consumed' = 1..Len(snapshot) THEN "ended" ELSE "scanning"
    /\ UNCHANGED <<snapshot, queries, resolved, items, listed, mergeVars, callVars, initVars, raVars, diVars>>

\* the consumer drops the stream before its end (as collect() does after an
\* error): the outstanding queries are cancelled
DropStream ==
    /\ lwd \in {"listing", "scanning", "list_failed"}
    /\ lwd' = "dropped"
    /\ UNCHANGED <<snapshot, queries, resolved, consumed, items, listed, mergeVars, callVars, initVars, raVars, diVars>>

NextLwd ==
    \/ list_with_details
    \/ PollListOk
    \/ PollListErr
    \/ PollAfterListErr
    \/ Resolve
    \/ PollYield
    \/ PollDrain
    \/ DropStream

SpecLwd == InitLwd /\ [][NextLwd]_vars

\* the stream in the hands of a consumer that polls it to its end, with an
\* engine that answers every state query; the longest snapshot of these runs
MaxPolledModules == 3

\* list() resolves with a snapshot of at most MaxPolledModules modules
PollListOkPolled == PollListOk /\ Len(snapshot') <= MaxPolledModules

PollStream ==
    \/ PollListOkPolled
    \/ PollListErr
    \/ PollAfterListErr
    \/ PollYield
    \/ PollDrain

NextLwdPolled ==
    \/ list_with_details
    \/ PollStream
    \/ Resolve

SpecLwdPolled ==
    InitLwd /\ [][NextLwdPolled]_vars /\ WF_vars(PollStream) /\ WF_vars(Resolve)

\* ------------------------------------------------------------------------
\* init
\* ------------------------------------------------------------------------

\* the number of init() calls made on the runtime in the model
MaxInits == 2

Inits == 1..MaxInits

NetworkNames == {"azure-iot-edge", "bridge"}

\* the engine's answer to network_list with the filter {"name":{id:true}}
NetworkList(id) == {n \in networks : n = id}

InitInit ==
    /\ MergeEnvUnused /\ CallsUnused /\ LwdUnused /\ RemoveAllUnused
    /\ DeleteIdentityUnused
    /\ network_id \in {None} \cup {Some(n) : n \in {"azure-iot-edge"}}
    /\ networks \in SUBSET NetworkNames
    /\ init_pc = [p \in Inits |-> "idle"]
    /\ init_requests = [p \in Inits |-> <<>>]
    /\ init_after = [p \in Inits |-> {}]
    /\ init_listed = [p \in Inits |-> "none"]

\* init(): with no network id the future is ready; otherwise network_list is
\* requested
init(p) ==
    /\ init_pc[p] = "idle"
    /\ init_after' = [init_after EXCEPT ![p] = {q \in Inits : init_pc[q] = "Ok"}]
    /\ IF network_id.some
       THEN /\ init_pc' = [init_pc EXCEPT ![p] = "listing"]
            /\ init_requests' = [init_requests EXCEPT
                   ![p] = <<[api |-> "network_list", name |-> network_id.val]>>]
       ELSE /\ init_pc' = [init_pc EXCEPT ![p] = "Ok"]
            /\ UNCHANGED init_requests
    /\ UNCHANGED <<network_id, networks, init_listed, mergeVars, callVars, lwdVars, raVars, diVars>>

\* mutant: the network is created whatever network_list answered
InitListedAlwaysCreates(p) ==
    /\ init_pc[p] = "listing"
    /\ init_pc' = [init_pc EXCEPT ![p] = "creating"]
    /\ init_requests' = [init_requests EXCEPT
           ![p] = Append(@, [api |-> "network_create", name |-> network_id.val])]
    /\ init_listed' = [init_listed EXCEPT
           ![p] = IF NetworkList(network_id.val) = {} THEN "empty" ELSE "nonempty"]
    /\ UNCHANGED <<network_id, networks, init_after, mergeVars, callVars, lwdVars, raVars, diVars>>

\* mutant: after a failed network_list the network is created all the same
InitListFailedThenCreates(p) ==
    /\ init_pc[p] = "listing"
    /\ init_listed' = [init_listed EXCEPT ![p] = "failed"]
    /\ init_pc' = [init_pc EXCEPT ![p] = "creating"]
    /\ init_requests' = [init_requests EXCEPT
           ![p] = Append(@, [api |-> "network_create", name |-> network_id.val])]
    /\ UNCHANGED <<network_id, networks, init_after, mergeVars, callVars, lwdVars, raVars, diVars>>

\* network_list has answered: and_then requests network_create when the list
\* is empty, and is done when it is not
InitListed(p) ==
    /\ init_pc[p] = "listing"
    /\ IF NetworkList(network_id.val) = {}
       THEN /\ init_pc' = [init_pc EXCEPT ![p] = "creating"]
            /\ init_requests' = [init_requests EXCEPT
                   ![p] = Append(@, [api |-> "network_create", name |-> network_id.val])]
       ELSE /\ init_pc' = [init_pc EXCEPT ![p] = "Ok"]
            /\ UNCHANGED init_requests
    /\ init_listed' = [init_listed EXCEPT
           ![p] = IF NetworkList(network_id.val) = {} THEN "empty" ELSE "nonempty"]
    /\ UNCHANGED <<network_id, networks, init_after, mergeVars, callVars, lwdVars, raVars, diVars>>

\* network_list has failed: map_err, the future fails
InitListFailed(p) ==
    /\ init_pc[p] = "listing"
    /\ init_listed' = [init_listed EXCEPT ![p] = "failed"]
    /\ init_pc' = [init_pc EXCEPT ![p] = "Err"]
    /\ UNCHANGED <<network_id, networks, init_requests, init_after,
                   mergeVars, callVars, lwdVars, raVars, diVars>>

\* mutant: the answer of network_create is followed by a second request
InitCreatedCreatesAgain(p) ==
    /\ init_pc[p] = "creating"
    /\ networks' = networks \cup {network_id.val}
    /\ init_pc' = [init_pc EXCEPT ![p] = "Ok"]
    /\ init_requests' = [init_requests EXCEPT
           ![p] = Append(@, [api |-> "network_create", name |-> network_id.val])]
    /\ UNCHANGED <<network_id, init_after, init_listed,
                   mergeVars, callVars, lwdVars, raVars, diVars>>

\* the engine has created the network and answered network_create
InitCreated(p) ==
    /\ init_pc[p] = "creating"
    /\ networks' = networks \cup {network_id.val}
    /\ init_pc' = [init_pc EXCEPT ![p] = "Ok"]
    /\ UNCHANGED <<network_id, init_requests, init_after, init_listed,
                   mergeVars, callVars, lwdVars, raVars, diVars>>

\* network_create has failed: map_err, the future fails
InitCreateFailed(p) ==
    /\ init_pc[p] = "creating"
    /\ init_pc' = [init_pc EXCEPT ![p] = "Err"]
    /\ UNCHANGED <<network_id, networks, init_requests, init_after, init_listed,
                   mergeVars, callVars, lwdVars, raVars, diVars>>

NextInit ==
    \E p \in Inits :
        \/ init(p)
        \/ InitListed(p)
        \/ InitListFailed(p)
        \/ InitCreated(p)
        \/ InitCreateFailed(p)

SpecInit == InitInit /\ [][NextInit]_vars

\* ------------------------------------------------------------------------
\* remove_all
\* ------------------------------------------------------------------------

\* the names list() may give a module: two names, and the empty name
RemoveAllNames == {<<"a">>, <<"b">>, <<>>}

RemoveAllSnapshots == UNION {[1..n -> RemoveAllNames] : n \in 0..MaxModules}

InitRemoveAll ==
    /\ MergeEnvUnused /\ CallsUnused /\ LwdUnused /\ InitUnused /\ RemoveAllUnused
    /\ DeleteIdentityUnused

\* remove_all(): the future is built around self.list()
remove_all ==
    /\ ra_pc = "unused"
    /\ ra_pc' = "listing"
    /\ UNCHANGED <<ra_snapshot, ra_calls, ra_requests, ra_elems, ra_result,
                   ra_list, ra_outcomes, mergeVars, callVars, lwdVars, initVars, diVars>>

\* list() has failed: and_then does not run its closure
RemoveAllListFailed ==
    /\ ra_pc = "listing"
    /\ \E kind \in EngineErrors : ra_list' = kind /\ ra_result' = kind
    /\ ra_pc' = "done"
    /\ UNCHANGED <<ra_snapshot, ra_calls, ra_requests, ra_elems, ra_outcomes,
                   mergeVars, callVars, lwdVars, initVars, diVars>>

\* mutant: remove() is called module after module and no more once one has
\* returned a failed future
RemoveCallsUntilFailure(modules) ==
    [i \in 1..Len(modules) |->
        IF \E j \in 1..(i - 1) : ~fensure_not_empty(modules[j]) THEN 0 ELSE 1]

\* join_all collects the mapped iterator: remove() is called once for each
\* module of the list, before any of the futures is polled
RemoveCalls(modules) == [i \in 1..Len(modules) |-> 1]

\* the requests those calls of remove() hand to the engine client, in order
RECURSIVE RemoveRequests(_, _, _)
RemoveRequests(modules, calls, i) ==
    IF i > Len(modules) THEN <<>>
    ELSE (IF calls[i] > 0 /\ fensure_not_empty(modules[i])
          THEN <<DeleteRequest(modules[i])>> ELSE <<>>)
         \o RemoveRequests(modules, calls, i + 1)

\* the futures those calls return: failed with Utils for a blank name, else
\* waiting for the engine
RemoveFutures(modules, calls) ==
    [i \in 1..Len(modules) |->
        IF calls[i] = 0 THEN "done"
        ELSE IF fensure_not_empty(modules[i]) THEN "inflight" ELSE "Utils"]

\* the first element, in index order, that a poll of JoinAll finds failed;
\* 0 when there is none
FirstFailed(elems) ==
    IF \E i \in 1..Len(elems) : elems[i] \notin {"inflight", "Ok", "done"}
    THEN CHOOSE i \in 1..Len(elems) :
            /\ elems[i] \notin {"inflight", "Ok", "done"}
            /\ \A j \in 1..(i - 1) : elems[j] \in {"inflight", "Ok", "done"}
    ELSE 0

\* mutant: a failed element is taken as done, like one that succeeded
JoinAllPollIgnoreFailures(elems) ==
    LET polled == [i \in 1..Len(elems) |-> IF elems[i] = "inflight" THEN "inflight" ELSE "done"]
    IN  IF \A i \in 1..Len(elems) : polled[i] = "done"
        THEN [pc |-> "done", result |-> "Ok", elems |-> polled]
        ELSE [pc |-> "joining", result |-> "none", elems |-> polled]

\* JoinAll::poll on elems: the outcome, the elements after the poll, and
\* whether the future has resolved
JoinAllPoll(elems) ==
    LET f == FirstFailed(elems)
        polled == [i \in 1..Len(elems) |-> IF elems[i] = "Ok" THEN "done" ELSE elems[i]]
    IN  IF f # 0 THEN [pc |-> "done", result |-> elems[f], elems |-> <<>>]
        ELSE IF \A i \in 1..Len(elems) : polled[i] = "done"
             THEN [pc |-> "done", result |-> "Ok", elems |-> polled]
             ELSE [pc |-> "joining", result |-> "none", elems |-> polled]

\* list() has resolved: the closure calls remove() for the modules, join_all
\* holds the futures, and and_then polls it at once
RemoveAllListed ==
    /\ ra_pc = "listing"
    /\ \E modules \in RemoveAllSnapshots :
        LET calls == RemoveCalls(modules)
            futures == RemoveFutures(modules, calls)
            after == JoinAllPoll(futures)
        IN  /\ ra_list' = "Ok"
            /\ ra_outcomes' = [i \in 1..Len(modules) |->
                                  IF futures[i] \in {"inflight", "done"} THEN "pending"
                                  ELSE futures[i]]
            /\ ra_snapshot' = modules
            /\ ra_calls' = calls
            /\ ra_requests' = RemoveRequests(modules, calls, 1)
            /\ ra_elems' = after.elems
            /\ ra_pc' = after.pc
            /\ ra_result' = after.result
    /\ UNCHANGED <<mergeVars, callVars, lwdVars, initVars, diVars>>

\* the engine answers one container-delete request
RemoveAnswered ==
    /\ ra_pc = "joining"
    /\ \E i \in 1..Len(ra_elems), o \in {"Ok"} \cup EngineErrors :
        /\ ra_elems[i] = "inflight"
        /\ ra_elems' = [ra_elems EXCEPT ![i] = o]
        /\ ra_outcomes' = [ra_outcomes EXCEPT ![i] = o]
    /\ UNCHANGED <<ra_pc, ra_snapshot, ra_calls, ra_requests, ra_result, ra_list,
                   mergeVars, callVars, lwdVars, initVars, diVars>>

\* the task is woken and polls JoinAll
RemoveAllPoll ==
    /\ ra_pc = "joining"
    /\ \E i \in 1..Len(ra_elems) : ra_elems[i] \notin {"inflight", "done"}
    /\ LET after == JoinAllPoll(ra_elems)
       IN  /\ ra_elems' = after.elems
           /\ ra_pc' = after.pc
           /\ ra_result' = after.result
    /\ UNCHANGED <<ra_snapshot, ra_calls, ra_requests, ra_list, ra_outcomes,
                   mergeVars, callVars, lwdVars, initVars, diVars>>

NextRemoveAll ==
    \/ remove_all
    \/ RemoveAllListFailed
    \/ RemoveAllListed
    \/ RemoveAnswered
    \/ RemoveAllPoll

SpecRemoveAll == InitRemoveAll /\ [][NextRemoveAll]_vars

\* ------------------------------------------------------------------------
\* The calls of the runtime together, the caller making one at a time
\* ------------------------------------------------------------------------

NextRuntime ==
    \/ ra_pc = "unused" /\ Next
    \/ Idle /\ NextRemoveAll

SpecRuntime == InitRuntime /\ [][NextRuntime]_vars

\* ------------------------------------------------------------------------
\* DeleteIdentity (edgelet-http-mgmt/src/server/identity/delete.rs)
\* ------------------------------------------------------------------------

\* the number of handle calls made on the handler in the model
MaxHandles == 2

Handles == 1..MaxHandles

\* the identity managers the handler is built around: that of each test, and
\* one holding m2 only
InitialIdentities == {<<>>, <<"m2">>, <<"m1", "m2", "m3">>}

\* params.name("name"): absent, or the captured module id
NameParams == {NoString} \cup {[some |-> TRUE, val |-> n] : n \in {"m1", "m2"}}

\* the message of an error, as its Display gives it
ErrorMessage(kind) ==
    CASE kind = "BadParam" -> "Bad parameter"
      [] kind = "ModuleNotFound" -> "Module not found"
      [] OTHER -> ""

\* IntoResponse::into_response: an error response whose body carries the
\* error's message
into_response(kind) == [status |-> "error", message |-> ErrorMessage(kind)]

\* Response::builder().status(StatusCode::NO_CONTENT).body(Body::default())
NoContentResponse == [status |-> "204 No Content", message |-> ""]

\* Ok(response) and Err(HyperError), and a future that has not resolved
FutureOk(response) == [ok |-> TRUE, response |-> response]
FutureErr == [ok |-> FALSE, response |-> [status |-> "none", message |-> ""]]
NotResolved == [ok |-> FALSE, response |-> [status |-> "pending", message |-> ""]]

\* IdentityManager::delete of the manager of the tests: the first identity of
\* that module id is removed, and with none the future fails
IdentityPosition(ids, name) ==
    IF \E i \in 1..Len(ids) : ids[i] = name
    THEN CHOOSE i \in 1..Len(ids) : ids[i] = name /\ \A j \in 1..(i - 1) : ids[j] # name
    ELSE 0

IdentitiesAfterDelete(ids, name) ==
    LET i == IdentityPosition(ids, name)
    IN  IF i = 0 THEN ids ELSE SubSeq(ids, 1, i - 1) \o SubSeq(ids, i + 1, Len(ids))

DeleteOutcome(ids, name) ==
    IF IdentityPosition(ids, name) = 0 THEN "ModuleNotFound" ELSE "Ok"

InitDeleteIdentity ==
    /\ MergeEnvUnused /\ CallsUnused /\ LwdUnused /\ InitUnused /\ RemoveAllUnused
    /\ identities \in InitialIdentities
    /\ mutex = 0
    /\ h_pc = [p \in Handles |-> "idle"]
    /\ h_params = [p \in Handles |-> NoString]
    /\ h_before = [p \in Handles |-> <<>>]
    /\ h_delete = [p \in Handles |-> "none"]
    /\ h_response = [p \in Handles |-> NotResolved]
    /\ h_locks = [p \in Handles |-> 0]
    /\ h_deletes = [p \in Handles |-> <<>>]

\* mutant: handle goes for the mutex whether the name is there or not
handle_always_locking(p) ==
    /\ h_pc[p] = "idle"
    /\ \E params \in NameParams :
        /\ h_params' = [h_params EXCEPT ![p] = params]
        /\ h_pc' = [h_pc EXCEPT ![p] = "locking"]
    /\ UNCHANGED <<identities, mutex, h_before, h_delete, h_response, h_locks, h_deletes,
                   mergeVars, callVars, lwdVars, initVars, raVars>>

\* handle(_req, params): match params.name("name"); with no name the future
\* of the BadParam response is returned at once
handle(p) ==
    /\ h_pc[p] = "idle"
    /\ \E params \in NameParams :
        /\ h_params' = [h_params EXCEPT ![p] = params]
        /\ h_pc' = [h_pc EXCEPT ![p] = IF params.some THEN "locking" ELSE "returned"]
    /\ UNCHANGED <<identities, mutex, h_before, h_delete, h_response, h_locks, h_deletes,
                   mergeVars, callVars, lwdVars, initVars, raVars>>

\* self.id_manager.lock().unwrap(): the thread waits until the mutex is free
HandleLock(p) ==
    /\ h_pc[p] = "locking"
    /\ mutex = 0
    /\ mutex' = p
    /\ h_locks' = [h_locks EXCEPT ![p] = @ + 1]
    /\ h_pc' = [h_pc EXCEPT ![p] = "locked"]
    /\ UNCHANGED <<identities, h_params, h_before, h_delete, h_response, h_deletes,
                   mergeVars, callVars, lwdVars, initVars, raVars>>

\* mutant: the guard lives on in the future handle returns
HandleDeleteHoldingGuard(p) ==
    /\ h_pc[p] = "locked"
    /\ mutex = p
    /\ h_before' = [h_before EXCEPT ![p] = identities]
    /\ h_deletes' = [h_deletes EXCEPT ![p] = Append(@, h_params[p].val)]
    /\ h_delete' = [h_delete EXCEPT ![p] = DeleteOutcome(identities, h_params[p].val)]
    /\ identities' = IdentitiesAfterDelete(identities, h_params[p].val)
    /\ h_pc' = [h_pc EXCEPT ![p] = "returned"]
    /\ UNCHANGED <<mutex, h_params, h_response, h_locks,
                   mergeVars, callVars, lwdVars, initVars, raVars>>

\* .delete(IdentitySpec::new(name)) under the guard, map and or_else around
\* its future; the guard is dropped at the end of the statement and handle
\* returns the boxed future
HandleDelete(p) ==
    /\ h_pc[p] = "locked"
    /\ mutex = p
    /\ h_before' = [h_before EXCEPT ![p] = identities]
    /\ h_deletes' = [h_deletes EXCEPT ![p] = Append(@, h_params[p].val)]
    /\ h_delete' = [h_delete EXCEPT ![p] = DeleteOutcome(identities, h_params[p].val)]
    /\ identities' = IdentitiesAfterDelete(identities, h_params[p].val)
    /\ mutex' = 0
    /\ h_pc' = [h_pc EXCEPT ![p] = "returned"]
    /\ UNCHANGED <<h_params, h_response, h_locks,
                   mergeVars, callVars, lwdVars, initVars, raVars>>

\* mutant: the deletion is answered 200 OK
HandleResolvesOk200(params, outcome) ==
    IF ~params.some THEN FutureOk(into_response("BadParam"))
    ELSE IF outcome = "Ok" THEN FutureOk([status |-> "200 OK", message |-> ""])
    ELSE FutureOk(into_response(outcome))

\* mutant: the failure of delete is the failure of handle's future
HandleResolvesPropagating(params, outcome) ==
    IF ~params.some THEN FutureOk(into_response("BadParam"))
    ELSE IF outcome = "Ok" THEN FutureOk(NoContentResponse)
    ELSE FutureErr

\* what handle's future resolves with: future::ok(BadParam response) with no
\* name; else delete's future through map (204) and or_else (the error's
\* response, as Ok)
HandleResolves(params, outcome) ==
    IF ~params.some THEN FutureOk(into_response("BadParam"))
    ELSE IF outcome = "Ok" THEN FutureOk(NoContentResponse)
    ELSE FutureOk(into_response(outcome))

\* the future handle returned is polled and resolves
HandlePoll(p) ==
    /\ h_pc[p] = "returned"
    /\ h_response' = [h_response EXCEPT ![p] = HandleResolves(h_params[p], h_delete[p])]
    /\ h_pc' = [h_pc EXCEPT ![p] = "done"]
    /\ UNCHANGED <<identities, mutex, h_params, h_before, h_delete, h_locks, h_deletes,
                   mergeVars, callVars, lwdVars, initVars, raVars>>

NextDeleteIdentity ==
    \E p \in Handles :
        \/ handle(p)
        \/ HandleLock(p)
        \/ HandleDelete(p)
        \/ HandlePoll(p)

SpecDeleteIdentity == InitDeleteIdentity /\ [][NextDeleteIdentity]_vars

\* the threads that run handle go on: one that waits for a free mutex gets
\* it, one that holds it runs its statement to the end. Nothing is assumed
\* of the polling of the futures handle returned
SpecDeleteIdentityFair ==
    /\ InitDeleteIdentity
    /\ [][NextDeleteIdentity]_vars
    /\ \A p \in Handles : WF_vars(HandleLock(p)) /\ WF_vars(HandleDelete(p))

\* ========================================================================
\* Properties
\* ========================================================================

\* the keys of cur_env's entries, as the code splits them
CurKeys == IF cur_env.some THEN {SplitKey(cur_env.val[i]) : i \in 1..Len(cur_env.val)} ELSE {}

\* the value of cur_env's last entry with key k
LastCurValue(k) ==
    LET i == CHOOSE i \in 1..Len(cur_env.val) :
                /\ SplitKey(cur_env.val[i]) = k
                /\ \A j \in (i + 1)..Len(cur_env.val) : SplitKey(cur_env.val[j]) # k
    IN  SplitValue(cur_env.val[i])

HasEntry(e) == \E i \in 1..Len(merged.val) : merged.val[i] = e

\* C6 as the spec states it: for every key present both in cur_env and in
\* new_env, the merged result carries new_env's value for that key.
C6_NewEnvWins ==
    merged.some =>
        \A k \in CurKeys \cap (DOMAIN new_env) : HasEntry(FormatEntry(k, new_env[k]))

\* C6 (amended): for every key present both in cur_env and in new_env, the
\* merged result carries cur_env's value for that key (the value of cur_env's
\* last entry with that key), and carries new_env's value only when the two
\* values are the same.
C6_CurEnvWins ==
    merged.some =>
        \A k \in CurKeys \cap (DOMAIN new_env) :
            /\ HasEntry(FormatEntry(k, LastCurValue(k)))
            /\ (new_env[k] # LastCurValue(k)) => ~HasEntry(FormatEntry(k, new_env[k]))

\* C6 witness: merge_env has returned for a cur_env and a new_env that give
\* different values to a common key.
C6_Witness ==
    /\ merged.some
    /\ \E k \in CurKeys \cap (DOMAIN new_env) : new_env[k] # LastCurValue(k)

\* the values C7 allows the entry of key k to carry
AllowedValues(k) ==
    (IF k \in CurKeys THEN {LastCurValue(k)} ELSE {})
        \cup (IF k \in DOMAIN new_env THEN {new_env[k]} ELSE {})

\* C7: merge_env returns exactly one KEY=VALUE entry for each key in the union
\* of cur_env's keys and new_env's keys: the result is as long as that union
\* is large and its entries can be matched one to one with the keys, the entry
\* of a key only in cur_env carrying cur_env's value, the entry of a key only
\* in new_env carrying new_env's value; with no key at all the result is empty.
C7_OneEntryPerKey ==
    merged.some =>
        LET keys == CurKeys \cup (DOMAIN new_env)
        IN  /\ Len(merged.val) = Cardinality(keys)
            /\ \E o \in IterOrders(keys) :
                   \A i \in 1..Len(merged.val) :
                       \E v \in AllowedValues(o[i]) : merged.val[i] = FormatEntry(o[i], v)
            /\ (keys = {} => merged.val = <<>>)

\* C7 witness: merge_env has returned for a cur_env that repeats a key and
\* holds a key new_env lacks, and a new_env that holds a key cur_env lacks.
C7_Witness ==
    /\ merged.some
    /\ cur_env.some
    /\ \E i, j \in 1..Len(cur_env.val) :
           i # j /\ SplitKey(cur_env.val[i]) = SplitKey(cur_env.val[j])
    /\ CurKeys \ (DOMAIN new_env) # {}
    /\ (DOMAIN new_env) \ CurKeys # {}

\* the identifier is empty or holds whitespace only
AllWhitespace(id) == \A i \in 1..Len(id) : id[i] \in {" ", "\t"}

\* C3: for every id that is empty or only whitespace, ModuleRuntime::start,
\* stop, restart, remove and ModuleRegistry::remove fail with a validation
\* (Utils) error and hand no request to the engine client.
C3_BlankIdRejected ==
    (/\ call.op \in {"start", "stop", "restart", "remove", "registry_remove"}
     /\ AllWhitespace(call.id))
        => (result = "Utils" /\ requests = <<>>)

\* C3 witness: stop has been called with an id of two whitespace characters
\* and its future has failed with Utils.
C3_Witness ==
    /\ call.op = "stop"
    /\ call.id = <<" ", "\t">>
    /\ result = "Utils"

\* C4 as the spec states it: logs called with an id that is empty or only
\* whitespace fails with a validation error and hands no request to the
\* engine client.
C4_LogsBlankIdRejected ==
    (call.op = "logs" /\ AllWhitespace(call.id))
        => (result = "Utils" /\ requests = <<>>)

\* C5: create with a module type other than "docker" fails with a validation
\* (Utils) error and hands no request to the engine client, whatever the
\* spec's name, config and env.
C5_WrongTypeRejected ==
    (call.op = "create" /\ call.module.type # "docker")
        => (result = "Utils" /\ requests = <<>>)

\* C5 witness: create has been called with type "not_docker" on a spec whose
\* create options clone and carry an env, and its future has failed with Utils.
C5_Witness ==
    /\ call.op = "create"
    /\ call.module.type = "not_docker"
    /\ call.module.options_ok
    /\ call.module.options_env.some
    /\ result = "Utils"

\* min(secs, 2^31 - 1) of a u64 given as four 16-bit limbs
MinWithI32Max(s) ==
    IF s[1] = 0 /\ s[2] = 0 /\ s[3] <= 32767 THEN s[3] * 65536 + s[4] ELSE 2147483647

\* C8: stop with a non-blank id sends one container-stop request whose
\* kill-grace value is 10 when the grace is absent and min(as_secs, 2^31 - 1)
\* when it is present; the value is within 0..2^31-1.
C8_KillGraceClamped ==
    (call.op = "stop" /\ ~AllWhitespace(call.id)) =>
        /\ Len(requests) = 1
        /\ requests[1].api = "container_stop"
        /\ requests[1].id = call.id
        /\ requests[1].t = (IF call.wait_before_kill.some
                            THEN MinWithI32Max(call.wait_before_kill.val.secs)
                            ELSE 10)
        /\ requests[1].t >= 0
        /\ requests[1].t <= 2147483647

\* C8 witness: stop has been called with a non-blank id and a grace of
\* 2^32 + 7 seconds, and the request carries 2^31 - 1.
C8_Witness ==
    /\ call.op = "stop"
    /\ call.id = <<"a">>
    /\ call.wait_before_kill.some
    /\ call.wait_before_kill.val.secs = <<0, 1, 0, 7>>
    /\ Len(requests) = 1
    /\ requests[1].t = 2147483647

\* the snapshot positions whose (module, state) pair the stream has yielded
YieldedPositions == {items[k].module.index : k \in {k \in 1..Len(items) : items[k].ok}}

\* C1: whatever the snapshot and the order in which the state queries
\* complete, every pair the stream yields is a snapshot module whose query
\* succeeded, paired with the state that very query resolved with, yielded
\* once; a module whose query failed with NotFound appears in no item, pair
\* or error; and a stream polled to its end has yielded every module whose
\* query succeeded.
C1_YieldsExactlyTheResolved ==
    /\ \A k \in 1..Len(items) :
           items[k].ok =>
               LET i == items[k].module.index
               IN  /\ i \in 1..Len(snapshot)
                   /\ resolved[i].ok
                   /\ items[k] = PairItem(snapshot[i], resolved[i].state)
    /\ \A k1, k2 \in 1..Len(items) :
           (items[k1].ok /\ items[k2].ok /\ items[k1].module.index = items[k2].module.index)
               => k1 = k2
    /\ \A k \in 1..Len(items) :
           items[k].module.index \in 1..Len(snapshot)
               => resolved[items[k].module.index].err # "NotFound"
    /\ lwd = "ended" => YieldedPositions = {i \in 1..Len(snapshot) : resolved[i].ok}

\* C1 witness: of the four modules a, b, c, d the queries of b and c failed
\* with NotFound; the stream has ended having yielded d, then a.
C1_Witness ==
    /\ lwd = "ended"
    /\ Len(snapshot) = 4
    /\ snapshot[1].name = "a" /\ snapshot[4].name = "d"
    /\ resolved[2] = StateErr("NotFound")
    /\ resolved[3] = StateErr("NotFound")
    /\ items = <<PairItem(snapshot[4], "running"), PairItem(snapshot[1], "stopped")>>

\* C2 (state part): a state query that failed with a kind other than NotFound
\* and whose completion the stream has taken is among the items as an error of
\* that kind, and is not among them as a pair of that module.
C2_FailureIsAnItem ==
    \A i \in consumed :
        (~resolved[i].ok /\ resolved[i].err # "NotFound") =>
            /\ \E k \in 1..Len(items) : items[k] = ErrItem(snapshot[i], resolved[i].err)
            /\ \A k \in 1..Len(items) : ~(items[k].ok /\ items[k].module.index = i)

\* C2 (step part): the items handed over so far stay as they are; a step only
\* appends.
C2_ItemsOnlyGrow ==
    /\ Len(items') >= Len(items)
    /\ SubSeq(items', 1, Len(items)) = items

\* C2: a state query failing with any kind other than NotFound is surfaced to
\* the consumer as an error item (never dropped, never turned into a pair),
\* and the pairs yielded before it are left as they were.
C2_OtherFailuresSurface == [](C2_FailureIsAnItem) /\ [][C2_ItemsOnlyGrow]_vars

\* C2 witness: a pair, then the error of a query that failed with Docker, then
\* another pair have been handed over.
C2_Witness ==
    /\ Len(items) = 3
    /\ items[1].ok
    /\ ~items[2].ok /\ items[2].err = "Docker" /\ items[2].module.index \in consumed
    /\ items[3].ok

\* the network-create requests init() call p has issued
Creates(p) ==
    Cardinality({k \in 1..Len(init_requests[p]) : init_requests[p][k].api = "network_create"})

\* C9: when an init() call is made after another one has completed
\* successfully (same configured network id, the engine listing a network
\* once it has been created), the later call issues no network-create
\* request: it sees the network in its network-list answer; the earlier call
\* issued at most one, so the two issue at most one in total.
C9_SecondInitCreatesNothing ==
    \A p, q \in DOMAIN init_pc :
        p \in init_after[q] => (Creates(q) = 0 /\ Creates(p) + Creates(q) <= 1)

\* C9 witness: the first call listed and created the network, the second was
\* made after it had succeeded, listed, and succeeded too.
C9_Witness ==
    /\ init_pc = [p \in Inits |-> IF p <= 2 THEN "Ok" ELSE "idle"]
    /\ 1 \in init_after[2]
    /\ Creates(1) = 1
    /\ Len(init_requests[2]) = 1
    /\ init_requests[2][1].api = "network_list"

\* the requests handed to the engine client that delete the container named n
DeletesOf(n) == Cardinality({k \in 1..Len(ra_requests) : ra_requests[k].id = n})

\* the snapshot positions of the modules named n
PositionsOf(n) == {i \in 1..Len(ra_snapshot) : ra_snapshot[i] = n}

\* C10: once list() has resolved, remove() has been called exactly once for
\* every module of the snapshot (never zero times, never twice), also when
\* the remove of another module has failed; every call for a non-blank name
\* has handed one container-delete request of that name to the engine client.
C10_RemoveOncePerModule ==
    ra_pc \in {"joining", "done"} =>
        /\ DOMAIN ra_calls = DOMAIN ra_snapshot
        /\ \A i \in 1..Len(ra_snapshot) : ra_calls[i] = 1
        /\ \A n \in RemoveAllNames :
               DeletesOf(n) = IF AllWhitespace(n) THEN 0 ELSE Cardinality(PositionsOf(n))

\* C10 witness: of three modules the first has the empty name, so that its
\* remove failed and remove_all with it; remove was called once for each.
C10_Witness ==
    /\ ra_pc = "done"
    /\ ra_result = "Utils"
    /\ ra_snapshot = <<<<>>, <<"a">>, <<"b">>>>
    /\ ra_calls = <<1, 1, 1>>

\* C11: remove_all() resolves with success if and only if list() succeeded
\* and the future of every module's remove resolved with success; when list()
\* fails the call fails with list()'s error and remove has been called for no
\* module; when the remove of any one module has failed, the call, once
\* resolved, has failed; until it resolves it reports nothing.
C11_SuccessIffAllSucceeded ==
    /\ ra_pc = "done" =>
           (ra_result = "Ok" <=>
               (ra_list = "Ok" /\ \A i \in 1..Len(ra_outcomes) : ra_outcomes[i] = "Ok"))
    /\ ra_pc = "done" => ra_result \in {"Ok", "Utils"} \cup EngineErrors
    /\ ra_pc # "done" => ra_result = "none"
    /\ ra_list \notin {"none", "Ok"} =>
           /\ ra_result = ra_list
           /\ ra_calls = <<>>
           /\ ra_requests = <<>>
    /\ (ra_pc = "done" /\ \E i \in 1..Len(ra_outcomes) : ra_outcomes[i] \notin {"pending", "Ok"})
           => ra_result \notin {"none", "Ok"}

\* C11 witness: list() gave three modules; the removes of the first and the
\* third succeeded, that of the second failed, and remove_all has failed.
C11_Witness ==
    /\ ra_pc = "done"
    /\ ra_list = "Ok"
    /\ Len(ra_snapshot) = 3
    /\ ra_outcomes = <<"Ok", "Docker", "Ok">>
    /\ ra_result = "Docker"

\* the engine's label filter "key=value" selects a container with these labels
MatchesLabelFilter(labels, filter) ==
    \E k \in DOMAIN labels : k \o "=" \o labels[k] = filter

\* C12: every container-create request create() issues carries the label
\* net.azure-devices.edge.owner = Microsoft.Azure.Devices.Edge.Agent, whatever
\* createOptions gave for that key; every other label of createOptions is
\* sent unchanged and no other label is added; the pair, written key=value, is
\* the label filter the request of list() carries, so the labels sent match
\* every filter of list().
C12_OwnershipLabelApplied ==
    /\ (call.op = "create" /\ requests # <<>>) =>
           LET given == IF call.module.options_labels.some
                        THEN call.module.options_labels.val ELSE <<>>
               sent == requests[1].labels
           IN  /\ Len(requests) = 1
               /\ requests[1].api = "container_create"
               /\ DOMAIN sent = (DOMAIN given) \cup {"net.azure-devices.edge.owner"}
               /\ sent["net.azure-devices.edge.owner"] = "Microsoft.Azure.Devices.Edge.Agent"
               /\ \A k \in (DOMAIN given) \ {"net.azure-devices.edge.owner"} :
                      sent[k] = given[k]
               /\ \A i \in 1..Len(LABELS) : MatchesLabelFilter(sent, LABELS[i])
    /\ call.op = "list" =>
           /\ Len(requests) = 1
           /\ requests[1].api = "container_list"
           /\ requests[1].filters =
                  Json([label |-> <<LABEL_KEY \o "=" \o LABEL_VALUE>>])

\* C12 witness: create has issued its request for a spec whose createOptions
\* gave the owner key another value, next to a label of its own.
C12_Witness ==
    /\ call.op = "create"
    /\ Len(requests) = 1
    /\ call.module.options_labels.some
    /\ "net.azure-devices.edge.owner" \in DOMAIN call.module.options_labels.val
    /\ call.module.options_labels.val["net.azure-devices.edge.owner"] = "other"
    /\ requests[1].labels["x"] = "y"

\* C13: outside list_with_details a NotFound reported by the engine is a
\* failure of the call: start, stop, restart, remove, logs and registry remove
\* fail with NotFound when their request was answered NotFound, and
\* remove_all, once resolved, has failed when the remove of a listed module
\* was answered NotFound (the module was deleted in the meantime) or when
\* list() was; it fails with NotFound when that is the failure it met first.
C13_NotFoundSurfaces ==
    /\ (/\ call.op \in {"start", "stop", "restart", "remove", "logs", "registry_remove"}
        /\ ~answer.ok
        /\ answer.err = "NotFound")
           => result = "NotFound"
    /\ (ra_pc = "done" /\ \E i \in 1..Len(ra_outcomes) : ra_outcomes[i] = "NotFound")
           => ra_result \in {"NotFound", "Docker", "Utils"}
    /\ (/\ ra_pc = "done"
        /\ \A j \in 1..Len(ra_outcomes) : ra_outcomes[j] \in {"NotFound", "Ok", "pending"}
        /\ \E j \in 1..Len(ra_outcomes) : ra_outcomes[j] = "NotFound")
           => ra_result = "NotFound"
    /\ ra_list = "NotFound" => ra_result = "NotFound"

\* C13 witness: remove_all listed the modules a and b; the remove of a
\* succeeded, that of b was answered NotFound, and remove_all has failed with
\* NotFound.
C13_Witness ==
    /\ ra_pc = "done"
    /\ ra_snapshot = <<<<"a">>, <<"b">>>>
    /\ ra_outcomes = <<"Ok", "NotFound">>
    /\ ra_result = "NotFound"

\* the call's input is valid: a non-blank id, a docker module whose create
\* options clone, credentials that serialize
ValidInput(c) ==
    CASE c.op \in {"start", "stop", "restart", "remove", "logs", "registry_remove"} ->
            ~AllWhitespace(c.id)
      [] c.op = "create" -> c.module.type = "docker" /\ c.module.options_ok
      [] c.op = "pull" -> c.config.auth # "bad"
      [] c.op = "system_info" -> TRUE
      [] OTHER -> FALSE

\* the engine request each operation is to issue
RequestApi(op) ==
    CASE op = "start" -> "container_start"
      [] op = "stop" -> "container_stop"
      [] op = "restart" -> "container_restart"
      [] op = "remove" -> "container_delete"
      [] op = "logs" -> "container_logs"
      [] op = "registry_remove" -> "image_delete"
      [] op = "create" -> "container_create"
      [] op = "pull" -> "image_create"
      [] op = "system_info" -> "system_info"
      [] OTHER -> ""

\* C14 (state part): a call of create, start, stop, restart, remove, logs,
\* system_info, pull or registry remove on valid input has issued one engine
\* request, that of its operation; and a request that failed was the only
\* one, its failure being what the call has resolved with.
C14_OneRequest ==
    /\ ValidInput(call) =>
           /\ Len(requests) = 1
           /\ requests[1].api = RequestApi(call.op)
    /\ (ValidInput(call) /\ answer # NoAnswer /\ ~answer.ok) =>
           /\ result = answer.err
           /\ Len(requests) = 1

\* C14 (step part): while a call is under way no step adds a request to
\* those the call issued when it was made.
C14_NoRequestAdded ==
    (call.op # "none" /\ call' = call) => requests' = requests

\* C14: on valid input each call of create, start, stop, restart, remove,
\* logs, system_info, pull and registry remove issues exactly one engine
\* request, and a failed request is not issued again: its failure is returned
\* to the caller after that one attempt.
C14_OneRequestPerCall == [](C14_OneRequest) /\ [][C14_NoRequestAdded]_vars

\* C14 witness: a stop of container "a" was answered with a failure and has
\* resolved with it, one request having been issued.
C14_Witness ==
    /\ call.op = "stop"
    /\ call.id = <<"a">>
    /\ ~answer.ok /\ answer.err = "Docker"
    /\ result = "Docker"
    /\ Len(requests) = 1

\* C15: when the engine has answered list() with container records, the
\* Modules list() resolves with are Modules of those records, in the records'
\* order and one at most for a record; the name of each is the first name of
\* its record without its leading "/", or "Unknown" when the record has no
\* name, and its config carries the record's image reference, image id and
\* labels.
C15_ModuleOfRecord ==
    (call.op = "list" /\ answer.ok) =>
        LET recs == answer.body.containers
            mods == item.modules
        IN  /\ result = "Ok"
            /\ item.kind = "modules"
            /\ \E f \in [1..Len(mods) -> 1..Len(recs)] :
                   /\ \A k1, k2 \in 1..Len(mods) : k1 < k2 => f[k1] < f[k2]
                   /\ \A k \in 1..Len(mods) :
                          LET rec == recs[f[k]]
                          IN  /\ Len(rec.names) = 0 =>
                                     mods[k].name = <<"U", "n", "k", "n", "o", "w", "n">>
                              /\ Len(rec.names) > 0 =>
                                     /\ <<"/">> \o mods[k].name = rec.names[1]
                                     /\ mods[k].name =
                                            SubSeq(rec.names[1], 2, Len(rec.names[1]))
                              /\ mods[k].config.image = rec.image
                              /\ mods[k].config.image_id = rec.image_id
                              /\ mods[k].config.labels = rec.labels

\* C15 witness: the engine answered with a record without names and a record
\* named "/b" and "/a"; list() has resolved with the Modules "Unknown" and "b".
C15_Witness ==
    /\ call.op = "list"
    /\ answer.ok
    /\ Len(answer.body.containers) = 2
    /\ answer.body.containers[1].names = <<>>
    /\ answer.body.containers[2].names = <<<<"/", "b">>, <<"/", "a">>>>
    /\ Len(item.modules) = 2
    /\ item.modules[1].name = <<"U", "n", "k", "n", "o", "w", "n">>
    /\ item.modules[2].name = <<"b">>
    /\ item.modules[2].config.image_id = "sha256:2"

\* the request asks for a forced removal that leaves volumes and links
ForcedKeepingVolumesAndLinks(request) ==
    request.force = TRUE /\ request.v = FALSE /\ request.link = FALSE

\* C16: every container-delete request issued by ModuleRuntime::remove,
\* called by the caller or by remove_all for the modules it listed, has
\* force = true, remove-volumes = false and remove-links = false, whatever
\* the id; and a remove of a non-blank id issues such a request for that id.
C16_DeleteAlwaysForced ==
    /\ \A k \in 1..Len(requests) :
           requests[k].api = "container_delete" => ForcedKeepingVolumesAndLinks(requests[k])
    /\ \A k \in 1..Len(ra_requests) :
           /\ ra_requests[k].api = "container_delete"
           /\ ForcedKeepingVolumesAndLinks(ra_requests[k])
    /\ (call.op = "remove" /\ ~AllWhitespace(call.id)) =>
           /\ Len(requests) = 1
           /\ requests[1].api = "container_delete"
           /\ requests[1].id = call.id
    /\ ra_pc \in {"joining", "done"} =>
           \A i \in 1..Len(ra_snapshot) :
               ~AllWhitespace(ra_snapshot[i]) =>
                   \E k \in 1..Len(ra_requests) : ra_requests[k].id = ra_snapshot[i]

\* C16 witness: remove_all listed the modules a and b and remove has issued
\* a forced container-delete request for each.
C16_Witness ==
    /\ ra_pc = "joining"
    /\ ra_snapshot = <<<<"a">>, <<"b">>>>
    /\ Len(ra_requests) = 2
    /\ ra_requests[1].id = <<"a">> /\ ra_requests[1].force
    /\ ra_requests[2].id = <<"b">> /\ ra_requests[2].force

\* the manager lists an identity of module id n among ids
Listed(ids, n) == \E i \in 1..Len(ids) : ids[i] = n

\* handle call p was given a name that named an identity when it called delete
NamedExisting(p) ==
    /\ h_params[p].some
    /\ h_pc[p] \in {"returned", "done"}
    /\ Listed(h_before[p], h_params[p].val)

\* C17 (state part): a handle call whose name named an existing identity has
\* resolved, once resolved, to a response of status 204 No Content; from its
\* delete on the manager no longer lists that identity, and still lists every
\* other identity it held then, save those another handle call has deleted.
C17_Deleted ==
    \A p \in Handles :
        NamedExisting(p) =>
            /\ h_pc[p] = "done" => h_response[p] = FutureOk([status |-> "204 No Content",
                                                            message |-> ""])
            /\ ~Listed(identities, h_params[p].val)
            /\ \A i \in 1..Len(h_before[p]) :
                   (\A q \in Handles : ~(NamedExisting(q) /\ h_params[q].val = h_before[p][i]))
                       => Listed(identities, h_before[p][i])

\* C17 (step part): the step in which a handle call deletes an existing
\* identity takes that identity, and only it, from the manager.
C17_OnlyThatIdentityGoes ==
    \A p \in Handles :
        (h_pc[p] = "locked" /\ h_pc'[p] = "returned" /\ Listed(identities, h_params[p].val)) =>
            /\ ~Listed(identities', h_params[p].val)
            /\ Len(identities') = Len(identities) - 1
            /\ \A i \in 1..Len(identities) :
                   identities[i] # h_params[p].val => Listed(identities', identities[i])

\* C17: DeleteIdentity.handle with a name parameter naming an existing
\* identity resolves to a response of status 204 No Content, and afterwards
\* the identity manager no longer lists that identity while every other
\* identity it held is still listed.
C17_DeleteSucceeds == [](C17_Deleted) /\ [][C17_OnlyThatIdentityGoes]_vars

\* C17 witness: on the manager of m1, m2 and m3 a handle call for m2 has
\* resolved to 204 and the manager lists m1 and m3.
C17_Witness ==
    \E p \in Handles :
        /\ h_pc[p] = "done"
        /\ h_params[p] = [some |-> TRUE, val |-> "m2"]
        /\ h_before[p] = <<"m1", "m2", "m3">>
        /\ h_response[p].ok /\ h_response[p].response.status = "204 No Content"
        /\ identities = <<"m1", "m3">>

\* C18 (state part): a handle call without a name parameter has not locked
\* the identity manager and has not called delete on it, and has resolved,
\* once resolved, to the error response of BadParam, whose message is
\* "Bad parameter".
C18_NoNameIsBadParam ==
    \A p \in Handles :
        (h_pc[p] # "idle" /\ ~h_params[p].some) =>
            /\ h_locks[p] = 0
            /\ mutex # p
            /\ h_deletes[p] = <<>>
            /\ h_pc[p] \in {"returned", "done"}
            /\ h_pc[p] = "done" =>
                   h_response[p] = FutureOk([status |-> "error", message |-> "Bad parameter"])

\* C18 (step part): no step of a handle call without a name parameter changes
\* the manager's identities or the mutex.
C18_ManagerUntouched ==
    \A p \in Handles :
        (h_pc'[p] # h_pc[p] /\ ~h_params'[p].some) =>
            (identities' = identities /\ mutex' = mutex)

\* C18: DeleteIdentity.handle without a name parameter resolves to the
\* BadParam error response (message "Bad parameter") and neither locks the
\* identity manager nor calls delete on it, so the manager's identities are
\* unchanged.
C18_NoNameRejected == [](C18_NoNameIsBadParam) /\ [][C18_ManagerUntouched]_vars

\* C18 witness: on the manager of m1, m2 and m3 a handle call without a name
\* has resolved to the "Bad parameter" response, the manager being as it was.
C18_Witness ==
    \E p \in Handles :
        /\ h_pc[p] = "done"
        /\ ~h_params[p].some
        /\ h_response[p].ok /\ h_response[p].response.message = "Bad parameter"
        /\ identities = <<"m1", "m2", "m3">>
        /\ \A q \in Handles : h_deletes[q] = <<>>

\* C19: the future of DeleteIdentity.handle never resolves to an error: once
\* resolved it holds a response, and when the manager's delete failed (the
\* named identity does not exist) that response is the error's response,
\* carrying its message "Module not found".
C19_NeverATransportError ==
    \A p \in Handles :
        /\ h_response[p] # FutureErr
        /\ h_pc[p] = "done" =>
               /\ h_response[p].ok
               /\ h_response[p].response.status \in {"204 No Content", "error"}
        /\ (h_pc[p] = "done" /\ h_delete[p] \notin {"none", "Ok"}) =>
               h_response[p] = FutureOk([status |-> "error", message |-> "Module not found"])

\* C19 witness: on the empty manager a handle call for m1 has resolved to the
\* "Module not found" response.
C19_Witness ==
    \E p \in Handles :
        /\ h_pc[p] = "done"
        /\ h_params[p] = [some |-> TRUE, val |-> "m1"]
        /\ h_before[p] = <<>>
        /\ h_delete[p] = "ModuleNotFound"
        /\ h_response[p].ok /\ h_response[p].response.message = "Module not found"

\* the order of the characters of the entries, as bytes
CharRank(c) ==
    CASE c = "0" -> 48 [] c = "1" -> 49 [] c = "2" -> 50 [] c = "3" -> 51
      [] c = "=" -> 61 [] c = "k" -> 107 [] c = "v" -> 118 [] c = "w" -> 119
      [] OTHER -> 0

\* a <= b as strings
RECURSIVE StringLeq(_, _)
StringLeq(a, b) ==
    IF a = <<>> THEN TRUE
    ELSE IF b = <<>> THEN FALSE
    ELSE IF Head(a) = Head(b) THEN StringLeq(Tail(a), Tail(b))
    ELSE CharRank(Head(a)) < CharRank(Head(b))

\* v after v.sort()
Sorted(v) ==
    LET o == CHOOSE o \in IterOrders(1..Len(v)) :
                 \A i \in 1..(Len(v) - 1) : StringLeq(v[o[i]], v[o[i + 1]])
    IN  [i \in 1..Len(v) |-> v[o[i]]]

\* C20: the entries merge_env returns are, for every key of cur_env, the entry
\* of cur_env's value (the last of that key), also when new_env holds the key,
\* and for every key new_env alone holds, the entry of new_env's value, and no
\* other; so merge_env with cur_env = ["k1=v1","k2=v2"] and new_env =
\* {k2: v02, k3: v3} returns, after sorting, ["k1=v1","k2=v2","k3=v3"].
C20_CurEnvInsertedLast ==
    merged.some =>
        /\ {merged.val[i] : i \in 1..Len(merged.val)} =
               {FormatEntry(k, LastCurValue(k)) : k \in CurKeys}
                   \cup {FormatEntry(k, new_env[k]) : k \in (DOMAIN new_env) \ CurKeys}
        /\ (/\ cur_env = Some(<<(<<"k", "1", "=", "v", "1">>), (<<"k", "2", "=", "v", "2">>)>>)
            /\ DOMAIN new_env = {<<"k", "2">>, <<"k", "3">>}
            /\ new_env[<<"k", "2">>] = <<"v", "0", "2">>
            /\ new_env[<<"k", "3">>] = <<"v", "3">>)
               => Sorted(merged.val) = << <<"k", "1", "=", "v", "1">>,
                                         <<"k", "2", "=", "v", "2">>,
                                         <<"k", "3", "=", "v", "3">> >>

\* C20 witness: merge_env has returned for cur_env = ["k1=v1","k2=v2"] and
\* new_env = {k2: v02, k3: v3}, with the entry k3=v3 ahead of k1=v1.
C20_Witness ==
    /\ merged.some
    /\ cur_env = Some(<<(<<"k", "1", "=", "v", "1">>), (<<"k", "2", "=", "v", "2">>)>>)
    /\ DOMAIN new_env = {<<"k", "2">>, <<"k", "3">>}
    /\ new_env[<<"k", "2">>] = <<"v", "0", "2">>
    /\ Len(merged.val) = 3
    /\ merged.val[1] = <<"k", "3", "=", "v", "3">>

\* C21: an init() call issues a network-create request only when a network
\* id is configured and its own network-list request, issued before, was
\* answered with an empty list, and then it issues one; with no network id
\* configured it succeeds with no request; with a non-empty list it succeeds
\* without a create; when network-list fails it fails without a create.
C21_CreateOnlyAfterEmptyList ==
    \A p \in Inits :
        /\ Creates(p) <= 1
        /\ Creates(p) = 1 =>
               /\ network_id.some
               /\ init_listed[p] = "empty"
               /\ Len(init_requests[p]) = 2
               /\ init_requests[p][1].api = "network_list"
               /\ init_requests[p][2].api = "network_create"
        /\ init_listed[p] = "empty" => Creates(p) = 1
        /\ (~network_id.some /\ init_pc[p] # "idle") =>
               (init_pc[p] = "Ok" /\ init_requests[p] = <<>>)
        /\ init_listed[p] = "nonempty" =>
               (init_pc[p] = "Ok" /\ Creates(p) = 0 /\ Len(init_requests[p]) = 1)
        /\ init_listed[p] = "failed" =>
               (init_pc[p] = "Err" /\ Creates(p) = 0 /\ Len(init_requests[p]) = 1)

\* C21 witness: one init() call was answered an empty list, created the
\* network and succeeded; another one's network-list failed and it failed,
\* having issued that one request.
C21_Witness ==
    \E p, q \in Inits :
        /\ init_listed[p] = "empty" /\ Creates(p) = 1 /\ init_pc[p] = "Ok"
        /\ init_listed[q] = "failed" /\ init_pc[q] = "Err"
        /\ Len(init_requests[q]) = 1

\* C22 as the spec states it: when the engine has answered the request of
\* pull, registry remove, create, start, stop, restart, remove, list, logs or
\* system_info with an error, the call has logged one warning and has failed
\* with the error's kind; a failure of the container-create
\* request of create() included.
C22_EngineErrorsLogged ==
    (call.op # "none" /\ answer # NoAnswer /\ ~answer.ok) =>
        /\ result = answer.err
        /\ Len(log) = 1

\* C23 as the spec states it: once a poll of list_with_details has found
\* list() failed, whatever the kind of the failure, the stream has handed
\* that failure to its consumer as its one item: a failed snapshot is never
\* an empty scan.
C23_ListFailureSurfaces ==
    listed \notin {"none", "Ok"} =>
        /\ lwd \in {"list_failed", "ended", "dropped"}
        /\ items = <<ErrItem(NoModuleOfList, listed)>>

\* the items handed over for snapshot position i
ItemsOf(i) == {k \in 1..Len(items) : items[k].module.index = i}

\* the positions taken whose completion was a pair, was dropped, was an error
TakenYielded == {i \in consumed : resolved[i].ok}
TakenDropped == {i \in consumed : ~resolved[i].ok /\ resolved[i].err = "NotFound"}
TakenErrors == {i \in consumed : ~resolved[i].ok /\ resolved[i].err # "NotFound"}

\* C24 (state part): once list() has resolved with the snapshot, the state
\* query of every module has been issued once; every completion the stream
\* has taken has produced one outcome, a pair, an error or a silent drop,
\* and no other position has produced any; and a stream that has ended has
\* taken every completion, so that pairs + drops + errors is the snapshot's
\* size.
C24_Accounted ==
    listed = "Ok" =>
        /\ Len(queries) = Len(snapshot)
        /\ \A i \in 1..Len(snapshot) : queries[i] = 1
        /\ consumed \subseteq 1..Len(snapshot)
        /\ \A i \in consumed : resolved[i] # Pending
        /\ \A i \in TakenYielded :
               Cardinality(ItemsOf(i)) = 1 /\ \A k \in ItemsOf(i) : items[k].ok
        /\ \A i \in TakenErrors :
               Cardinality(ItemsOf(i)) = 1 /\ \A k \in ItemsOf(i) : ~items[k].ok
        /\ \A i \in TakenDropped : ItemsOf(i) = {}
        /\ \A i \in (1..Len(snapshot)) \ consumed : ItemsOf(i) = {}
        /\ Len(items) = Cardinality(TakenYielded) + Cardinality(TakenErrors)
        /\ lwd = "ended" =>
               /\ consumed = 1..Len(snapshot)
               /\ Cardinality(TakenYielded) + Cardinality(TakenDropped)
                      + Cardinality(TakenErrors) = Len(snapshot)

\* C24: list_with_details accounts for every module of the snapshot once,
\* and the stream of a consumer that keeps polling, errors handed over or
\* not, comes to its end once the queries have completed.
C24_EveryModuleOnceThenEnd ==
    /\ [](C24_Accounted)
    /\ (lwd = "listing") ~> (lwd = "ended")

\* C24 witness: the stream of a snapshot of three modules has ended having
\* handed over an error, then a pair, one completion having been dropped.
C24_Witness ==
    /\ lwd = "ended"
    /\ Len(snapshot) = 3
    /\ Len(items) = 2
    /\ ~items[1].ok
    /\ items[2].ok
    /\ Cardinality(TakenDropped) = 1

\* the conversion of a container record to a DockerConfig or to a
\* DockerModule fails
ConversionFails(rec) ==
    \/ ~DockerConfigNewOk(rec.image)
    \/ ~DockerModuleNewOk(IF rec.names = <<>> THEN Unknown ELSE Tail(rec.names[1]))

\* C25: when the engine has answered list() with container records, the call
\* has succeeded and has logged nothing, whatever the records; it has
\* resolved with one Module for each record whose conversions succeed, in
\* the records' order, and with none for a record whose conversion fails,
\* so with fewer Modules than records when there is such a record.
C25_FailedConversionsOmitted ==
    (call.op = "list" /\ answer.ok) =>
        LET recs == answer.body.containers
            kept == SelectSeq(recs, LAMBDA rec : ~ConversionFails(rec))
        IN  /\ result = "Ok"
            /\ log = <<>>
            /\ item.kind = "modules"
            /\ Len(item.modules) = Len(kept)
            /\ \A k \in 1..Len(kept) :
                   /\ item.modules[k].config.image = kept[k].image
                   /\ item.modules[k].config.image_id = kept[k].image_id
            /\ (\E i \in 1..Len(recs) : ConversionFails(recs[i]))
                   => Len(item.modules) < Len(recs)

\* C25 witness: the engine answered with a record of a blank image reference
\* and a record that converts; list() has resolved with the Module of the
\* second record alone, having logged nothing.
C25_Witness ==
    /\ call.op = "list"
    /\ answer.ok
    /\ Len(answer.body.containers) = 2
    /\ answer.body.containers[1].image = <<>>
    /\ answer.body.containers[1].image_id = "sha256:1"
    /\ answer.body.containers[2].image = <<"i">>
    /\ answer.body.containers[2].image_id = "sha256:2"
    /\ result = "Ok"
    /\ log = <<>>
    /\ Len(item.modules) = 1
    /\ item.modules[1].config.image_id = "sha256:2"

\* C26 as stated: whatever the interleaving of two init() calls of runtimes
\* configured with the same network id, at most one network-create request
\* reaches the engine.
C26_AtMostOneCreate ==
    \A p, q \in Inits : p # q => Creates(p) + Creates(q) <= 1

\* C26, amended: two concurrent init() calls issue at most one
\* network-create request each, so two at most; both issue one only when
\* the network-list of both was answered with an empty list, neither call
\* having been made after the other had completed; and a call whose
\* network-list was answered with the network in it issues none.
C26_OneCreatePerCall ==
    \A p, q \in Inits :
        p # q =>
            /\ Creates(p) <= 1
            /\ Creates(p) + Creates(q) <= 2
            /\ (Creates(p) = 1 /\ Creates(q) = 1) =>
                   /\ init_listed[p] = "empty" /\ init_listed[q] = "empty"
                   /\ p \notin init_after[q] /\ q \notin init_after[p]
            /\ init_listed[q] = "nonempty" => Creates(q) = 0

\* C26 witness: two init() calls have both listed no network, have both
\* requested network-create and have both succeeded.
C26_Witness ==
    \E p, q \in Inits :
        /\ p # q
        /\ init_listed[p] = "empty" /\ init_listed[q] = "empty"
        /\ Creates(p) = 1 /\ Creates(q) = 1
        /\ init_pc[p] = "Ok" /\ init_pc[q] = "Ok"

\* C27 (state part): the mutex is held by a handle call exactly while that
\* call is between its lock() and the end of the statement that calls
\* delete; a call that has returned its future, resolved or still pending,
\* does not hold it; and a call takes it once and calls delete once at most.
C27_HeldOnlyInTheCall ==
    /\ mutex \in {0} \cup Handles
    /\ \A p \in Handles :
           /\ (mutex = p) <=> (h_pc[p] = "locked")
           /\ h_pc[p] \in {"idle", "locking", "returned", "done"} => mutex # p
           /\ h_locks[p] <= 1
           /\ Len(h_deletes[p]) <= 1
    /\ \A p, q \in Handles : (h_pc[p] = "locked" /\ h_pc[q] = "locked") => p = q

\* C27 (step part): id_manager.delete is called by the call that holds the
\* mutex, and by no other call in that step; the step releases the mutex.
C27_DeleteUnderTheLock ==
    \A p \in Handles :
        h_deletes'[p] # h_deletes[p] =>
            /\ mutex = p
            /\ mutex' = 0
            /\ \A q \in Handles \ {p} : h_deletes'[q] = h_deletes[q]

\* C27: the mutex is held only for the synchronous call that starts delete,
\* the calls of delete of concurrent handle calls do not overlap, and handle
\* calls do not deadlock on the mutex: every call that has come to lock()
\* returns its future, whatever becomes of the futures other calls returned.
C27_NoDeadlockOnTheMutex ==
    /\ [](C27_HeldOnlyInTheCall)
    /\ [][C27_DeleteUnderTheLock]_vars
    /\ \A p \in Handles : (h_pc[p] = "locking") ~> (h_pc[p] \in {"returned", "done"})

\* C27 witness: one handle call has called delete and returned a future
\* that is still pending, and another call holds the mutex.
C27_Witness ==
    \E p, q \in Handles :
        /\ p # q
        /\ h_pc[p] = "returned"
        /\ Len(h_deletes[p]) = 1
        /\ h_response[p] = NotResolved
        /\ h_pc[q] = "locked"
        /\ mutex = q

====
